---- MODULE Spec2Model ----
(***************************************************************************)
(* plotternova: histogram construction (plot_objects/standard2d.py, Hist)  *)
(* and the axis auto-limit helpers (utils.py).                             *)
(*                                                                         *)
(* Numbers.  Floating-point values are modelled exactly:                   *)
(*   - a rational is a record [num, den]; den = 0 stands for the           *)
(*     non-finite results of a division by zero (nan / inf);               *)
(*   - an uncertainty is a record [coef, rad, den] standing for            *)
(*     coef * sqrt(rad) / den, so np.sqrt and np.square are both exact.    *)
(***************************************************************************)
EXTENDS Integers, Sequences, FiniteSets, TLC

\* Bounds of the explored inputs.
MaxLen == 2        \* longest data array
MaxVal == 2        \* data values, bin edges and bin_range ends are 0..MaxVal
MaxBins == 2       \* largest integer bin count / number of bins of an edge array
MaxSets == 2       \* most datasets handed to compute_auto_limits
MaxCalls == 2      \* most ax.legend / ax.grid calls that reach one axes

VARIABLES
    pc,        \* "start", then "constructed" / "raised" / "limits"
    args,      \* the arguments of the Hist(...) call
    self,      \* the attributes of the Hist object
    exc,       \* the exception that left Hist.__init__, if any
    lim_args,  \* the arguments of the compute_auto_limits call
    lim,       \* the list compute_auto_limits returned
    look,      \* the appearance attributes of the Hist object
    ax,        \* the matplotlib axes drawn on
    call,      \* the last call made on the axes' behalf and how it ended
    fig        \* the attributes of the BasicPlot / HistPlot object

vars == <<pc, args, self, exc, lim_args, lim, look, ax, call, fig>>

----------------------------------------------------------------------------
\* Exact arithmetic

Rat(n, d) == [num |-> n, den |-> d]

IsFinite(a) == a.den # 0

\* comparisons of finite rationals with positive denominators
RatEq(a, b) == a.num * b.den = b.num * a.den
RatLE(a, b) == a.num * b.den <= b.num * a.den
RatLT(a, b) == a.num * b.den < b.num * a.den

RatAdd(a, b) == Rat(a.num * b.den + b.num * a.den, a.den * b.den)
RatSub(a, b) == Rat(a.num * b.den - b.num * a.den, a.den * b.den)
RatMul(a, b) == Rat(a.num * b.num, a.den * b.den)

\* x / s for an integer s: division by zero gives a non-finite value
RatDivInt(a, s) ==
    IF s > 0 THEN Rat(a.num, a.den * s)
    ELSE IF s < 0 THEN Rat(0 - a.num, a.den * (0 - s))
    ELSE Rat(a.num, 0)

Surd(c, r, d) == [coef |-> c, rad |-> r, den |-> d]

\* equality of two finite non-negative values coef * sqrt(rad) / den
SurdEq(a, b) ==
    a.coef * a.coef * a.rad * b.den * b.den = b.coef * b.coef * b.rad * a.den * a.den

SurdDivInt(a, s) ==
    IF s > 0 THEN Surd(a.coef, a.rad, a.den * s)
    ELSE IF s < 0 THEN Surd(0 - a.coef, a.rad, a.den * (0 - s))
    ELSE Surd(a.coef, a.rad, 0)

RECURSIVE SumSeq(_)
SumSeq(s) == IF s = <<>> THEN 0 ELSE Head(s) + SumSeq(Tail(s))

RECURSIVE SeqMin(_)
SeqMin(s) ==
    IF Len(s) = 1 THEN s[1]
    ELSE LET m == SeqMin(Tail(s)) IN IF s[1] <= m THEN s[1] ELSE m

RECURSIVE SeqMax(_)
SeqMax(s) ==
    IF Len(s) = 1 THEN s[1]
    ELSE LET m == SeqMax(Tail(s)) IN IF s[1] >= m THEN s[1] ELSE m

\* np.sum of an array of rationals sharing one denominator
RECURSIVE RatSumSeq(_)
RatSumSeq(s) == IF s = <<>> THEN Rat(0, 1) ELSE RatAdd(Head(s), RatSumSeq(Tail(s)))

----------------------------------------------------------------------------
\* Optional arguments: None is [given |-> FALSE, ...]

NoWeights == [given |-> FALSE, v |-> <<>>]
SomeWeights(w) == [given |-> TRUE, v |-> w]

NoRange == [given |-> FALSE, lo |-> 0, hi |-> 0]
SomeRange(a, b) == [given |-> TRUE, lo |-> a, hi |-> b]

IntBins(n) == [kind |-> "int", n |-> n, edges |-> <<>>]
ArrayBins(e) == [kind |-> "array", n |-> 0, edges |-> e]

NoErr == [present |-> FALSE, v |-> <<>>]
SomeErr(e) == [present |-> TRUE, v |-> e]

----------------------------------------------------------------------------
\* numpy primitives used by Hist.__init__

\* np.asarray(x).shape of a one-dimensional array
Shape(x) == Len(x)

\* utils.check_shape(x, y, xname, yname): both arguments as arrays, or a
\* ValueError when their shapes differ (the shape check of utils.validate_xy)
check_shape(x, y) ==
    IF Shape(x) # Shape(y)
    THEN [raised |-> "ValueError", x |-> <<>>, y |-> <<>>]
    ELSE [raised |-> "none", x |-> x, y |-> y]

np_ones_like(a) == [i \in 1..Len(a) |-> 1]

\* elementwise weights**2
np_power2(w) == [i \in 1..Len(w) |-> w[i] * w[i]]

\* np.sqrt of an array of non-negative numbers
np_sqrt(a) == [i \in 1..Len(a) |-> Surd(1, a[i], 1)]

\* np.square of an array
np_square(a) == [i \in 1..Len(a) |-> Surd(a[i] * a[i], 1, 1)]

RECURSIVE SumIdx(_, _)
SumIdx(f, S) ==
    IF S = {} THEN 0
    ELSE LET k == CHOOSE j \in S : TRUE IN f[k] + SumIdx(f, S \ {k})

\* numpy _get_outer_edges, doubled so that the +-0.5 widening stays integral:
\* <<2*first_edge, 2*last_edge>>
OuterEdges2(a, range) ==
    LET first == IF range.given THEN range.lo ELSE IF a = <<>> THEN 0 ELSE SeqMin(a)
        last  == IF range.given THEN range.hi ELSE IF a = <<>> THEN 1 ELSE SeqMax(a)
    IN  IF first = last THEN <<2 * first - 1, 2 * last + 1>>
        ELSE <<2 * first, 2 * last>>

\* linspace with one point too many
UniformEdgesExtra(a, n, range) ==
    LET fl == OuterEdges2(a, range)
    IN  [i \in 1..(n + 2) |-> Rat(n * fl[1] + (i - 1) * (fl[2] - fl[1]), 2 * n)]

\* np.linspace(first_edge, last_edge, n + 1)
UniformEdges(a, n, range) ==
    LET fl == OuterEdges2(a, range)
    IN  [i \in 1..(n + 1) |-> Rat(n * fl[1] + (i - 1) * (fl[2] - fl[1]), 2 * n)]

\* every bin half-open, the last one included
InBinHalfOpen(x, edges, i) ==
    RatLE(edges[i], Rat(x, 1)) /\ RatLT(Rat(x, 1), edges[i + 1])

\* sample x lies in bin i of edges: half-open, the last bin closed on the right
InBin(x, edges, i) ==
    /\ RatLE(edges[i], Rat(x, 1))
    /\ IF i = Len(edges) - 1 THEN RatLE(Rat(x, 1), edges[i + 1])
       ELSE RatLT(Rat(x, 1), edges[i + 1])

BinCounts(a, w, edges) ==
    [i \in 1..(Len(edges) - 1) |->
        SumIdx(w, {k \in 1..Len(a) : InBin(a[k], edges, i)})]

\* np.histogram(a, bins=bins, range=range, weights=weights): <<hist, bin_edges>>
\* or a ValueError (weights of another shape, a bin count below 1, a reversed
\* range, decreasing edges).  `range` is ignored when bins is an array of edges.
np_histogram(a, bins, range, weights) ==
    LET w == IF weights.given THEN weights.v ELSE np_ones_like(a)
        bad == \/ weights.given /\ Shape(weights.v) # Shape(a)
               \/ IF bins.kind = "int"
                  THEN bins.n < 1 \/ (range.given /\ range.lo > range.hi)
                  ELSE \E i \in 1..(Len(bins.edges) - 1) :
                          bins.edges[i] > bins.edges[i + 1]
        edges == IF bins.kind = "int" THEN UniformEdges(a, bins.n, range)
                 ELSE [i \in 1..Len(bins.edges) |-> Rat(bins.edges[i], 1)]
    IN  IF bad THEN [raised |-> "ValueError", hist |-> <<>>, bin_edges |-> <<>>]
        ELSE [raised |-> "none", hist |-> BinCounts(a, w, edges), bin_edges |-> edges]

----------------------------------------------------------------------------
\* Hist.__init__

NoneHist ==
    [weights |-> <<>>, counted |-> FALSE, data |-> <<>>, bins |-> <<>>,
     err |-> NoErr, normalize |-> FALSE]

Raise(type, at) == [raised |-> type, at |-> at, obj |-> NoneHist]

\* the length check left out
WeightsCheckSkipped(data, weights) == "none"

\* line 113-114: the outcome of the data / weights length check
WeightsCheck(data, weights) ==
    IF weights.given THEN check_shape(data, weights.v).raised ELSE "none"

\* the bin-type test left out
BinsIsIntSkipped(bins) == FALSE

\* line 127: type(bins) == int
BinsIsInt(bins) == bins.kind = "int"

\* one count per edge instead of one per bin
LengthMismatchOffByOne(data, bins) == Len(data) # Len(bins.edges)

\* line 131: len(data) != len(bins) - 1
LengthMismatch(data, bins) == Len(data) # Len(bins.edges) - 1

\* the weights attribute: the checked array, or all ones
SelfWeights(data, weights) ==
    IF weights.given THEN check_shape(data, weights.v).y ELSE np_ones_like(data)

\* the Poisson error sqrt(count) in place of the squared counts
CountedErrPoisson(data, weights, include_error) ==
    IF include_error
    THEN IF weights.given THEN SomeErr(np_sqrt(weights.v))
         ELSE SomeErr(np_sqrt(data))
    ELSE NoErr

\* the error of each bin in pre-counted mode
CountedErr(data, weights, include_error) ==
    IF include_error
    THEN IF weights.given THEN SomeErr(np_sqrt(weights.v))
         ELSE SomeErr(np_square(data))
    ELSE NoErr

\* line 159: the histogram call that feeds the error in raw mode with
\* weights; bin_range is not handed to it
RawErrHist(data, bins, bin_range, weights) ==
    np_histogram(data, bins, NoRange, SomeWeights(np_power2(weights.v))).hist

\* the error of each bin in raw mode; counts is self.data
RawErr(data, bins, bin_range, weights, counts, include_error) ==
    IF include_error
    THEN IF weights.given THEN SomeErr(np_sqrt(RawErrHist(data, bins, bin_range, weights)))
         ELSE SomeErr(np_sqrt(counts))
    ELSE NoErr

\* the sum of the binned counts in both modes
SumCountsOfData(counted, counts, self_weights) == SumSeq(counts)

\* the divisor of the normalization
SumCounts(counted, counts, self_weights) ==
    IF counted THEN SumSeq(counts) ELSE SumSeq(self_weights)

NormData(counts, normalize, sum_counts) ==
    [i \in 1..Len(counts) |->
        IF normalize THEN RatDivInt(Rat(counts[i], 1), sum_counts) ELSE Rat(counts[i], 1)]

NormErr(err, normalize, sum_counts) ==
    IF normalize /\ err.present
    THEN SomeErr([i \in 1..Len(err.v) |-> SurdDivInt(err.v[i], sum_counts)])
    ELSE err

\* lines 165-181: normalization and the stored attributes
Finish(counted, counts, edges, err, self_weights, normalize) ==
    LET sum_counts == SumCounts(counted, counts, self_weights)
    IN  [raised |-> "none", at |-> "",
         obj |-> [weights |-> self_weights, counted |-> counted,
                  data |-> NormData(counts, normalize, sum_counts),
                  bins |-> edges,
                  err |-> NormErr(err, normalize, sum_counts),
                  normalize |-> normalize]]

HistInit(data, bins, bin_range, counted, weights, include_error, normalize) ==
    IF WeightsCheck(data, weights) # "none"
    THEN Raise(WeightsCheck(data, weights), "check_shape")
    ELSE
    LET self_weights == SelfWeights(data, weights)
    IN  IF counted
        THEN IF BinsIsInt(bins) THEN Raise("ValueError", "int bins")
             \* len() of an int raises TypeError
             ELSE IF bins.kind = "int" THEN Raise("TypeError", "len(bins)")
             ELSE IF LengthMismatch(data, bins) THEN Raise("ValueError", "length")
             ELSE Finish(counted, data,
                         [i \in 1..Len(bins.edges) |-> Rat(bins.edges[i], 1)],
                         CountedErr(data, weights, include_error),
                         self_weights, normalize)
        ELSE LET h == np_histogram(data, bins, bin_range, weights)
             IN  IF h.raised # "none" THEN Raise(h.raised, "np.histogram")
                 ELSE Finish(counted, h.hist, h.bin_edges,
                             RawErr(data, bins, bin_range, weights, h.hist, include_error),
                             self_weights, normalize)

----------------------------------------------------------------------------
\* utils.compute_auto_limits and utils.magnitude_round

NaN == Rat(0, 0)

RECURSIVE Pow10(_)
Pow10(k) == IF k = 0 THEN 1 ELSE 10 * Pow10(k - 1)

\* 10**e for an integer exponent e
TenTo(e) == IF e >= 0 THEN Rat(Pow10(e), 1) ELSE Rat(1, Pow10(0 - e))

\* np.floor(np.log10(x)) for x > 0, searched from exponent e
RECURSIVE FloorLog10From(_, _)
FloorLog10From(x, e) ==
    IF RatLT(x, TenTo(e)) THEN FloorLog10From(x, e - 1)
    ELSE IF RatLE(TenTo(e + 1), x) THEN FloorLog10From(x, e + 1)
    ELSE e

FloorLog10(x) == FloorLog10From(x, 0)

\* one above the floor, also at an exact power of ten
CeilLog10Off(x) == FloorLog10(x) + 1

\* np.ceil(np.log10(x)) for x > 0
CeilLog10(x) ==
    LET f == FloorLog10(x) IN IF RatEq(x, TenTo(f)) THEN f ELSE f + 1

\* log10 of 0 is -inf and 10**-inf is 0; log10 of a negative number is nan
magnitude_round(x, type) ==
    IF x.num < 0 THEN NaN
    ELSE IF x.num = 0 THEN Rat(0, 1)
    ELSE IF type = "ceil" THEN TenTo(CeilLog10(x))
    ELSE TenTo(FloorLog10(x))

RECURSIVE np_min(_)
np_min(s) ==
    IF Len(s) = 1 THEN s[1]
    ELSE LET m == np_min(Tail(s)) IN IF RatLE(s[1], m) THEN s[1] ELSE m

RECURSIVE np_max(_)
np_max(s) ==
    IF Len(s) = 1 THEN s[1]
    ELSE LET m == np_max(Tail(s)) IN IF RatLE(m, s[1]) THEN s[1] ELSE m

\* the padding factor of a linear axis, 0.04
Pad == Rat(4, 100)

\* the padding applied towards the inside on the low end
LinearLimitsInward(low, high) ==
    LET span == RatSub(high, low)
    IN  <<RatAdd(low, RatMul(Pad, span)), RatAdd(high, RatMul(Pad, span))>>

\* lines 120-121: span = high - low; [low - 0.04*span, high + 0.04*span]
LinearLimits(low, high) ==
    LET span == RatSub(high, low)
    IN  <<RatSub(low, RatMul(Pad, span)), RatAdd(high, RatMul(Pad, span))>>

LogLimits(low, high) == <<magnitude_round(low, "floor"), magnitude_round(high, "ceil")>>

\* np.min / np.max of an empty list raise ValueError
compute_auto_limits(min_arr, max_arr, log) ==
    IF min_arr = <<>> \/ max_arr = <<>> THEN [raised |-> "ValueError", v |-> <<>>]
    ELSE [raised |-> "none",
          v |-> IF log THEN LogLimits(np_min(min_arr), np_max(max_arr))
                ELSE LinearLimits(np_min(min_arr), np_max(max_arr))]

----------------------------------------------------------------------------
\* The calls explored

DataVals == 0..MaxVal

SeqsUpTo(S, n) == UNION {[1..k -> S] : k \in 0..n}

DataArrays == SeqsUpTo(DataVals, MaxLen)

\* two distinct weights tell w, w**2 and a plain count apart
WeightVals == {1, 2}

\* for a data array: no weights, every weight array of its length, and
\* one array that is one entry too long
WeightChoices(data) ==
    {NoWeights}
    \cup {SomeWeights(w) : w \in [1..Len(data) -> WeightVals]}
    \cup {SomeWeights([i \in 1..(Len(data) + 1) |-> 1])}

IsIncreasing(e) == \A i \in 1..(Len(e) - 1) : e[i] < e[i + 1]

EdgeArrays == {e \in SeqsUpTo(DataVals, MaxBins + 1) : Len(e) >= 2 /\ IsIncreasing(e)}

BinChoices == {IntBins(n) : n \in 1..MaxBins} \cup {ArrayBins(e) : e \in EdgeArrays}

RangeChoices ==
    {NoRange}
    \cup {SomeRange(p[1], p[2]) : p \in {q \in DataVals \X DataVals : q[1] < q[2]}}

NoArgs ==
    [data |-> <<>>, bins |-> IntBins(0), bin_range |-> NoRange, counted |-> FALSE,
     weights |-> NoWeights, include_error |-> FALSE, normalize |-> FALSE]

NoExc == [type |-> "none", at |-> ""]

NoLimArgs == [min_arr |-> <<>>, max_arr |-> <<>>, log |-> FALSE]

\* a label: None, or a string
NoLabel == [none |-> TRUE, s |-> ""]
Label(s) == [none |-> FALSE, s |-> s]

\* the defaults of hist_type, err_style and label
NoLook == [hist_type |-> "stepfilled", err_style |-> "ATLAS", label |-> NoLabel]

\* an axis limit: None, or a pair of numbers
NoLim == [given |-> FALSE, v |-> <<>>]
SomeLim(lo, hi) == [given |-> TRUE, v |-> <<lo, hi>>]

NoLegend == [on |-> FALSE, handles |-> <<>>, labels |-> <<>>, loc |-> ""]

\* fresh axes: nothing drawn, no legend, no grid, limits and scales untouched
NewAxes ==
    [artists |-> <<>>, legend |-> NoLegend, grid |-> <<>>,
     xlim |-> NoLim, ylim |-> NoLim, xscale |-> "linear", yscale |-> "linear"]

NoCall == [fn |-> "", raised |-> "none"]

NoFig == [cls |-> "none"]

Init ==
    /\ pc = "start"
    /\ args = NoArgs
    /\ self = NoneHist
    /\ exc = NoExc
    /\ lim_args = NoLimArgs
    /\ lim = [raised |-> "none", v |-> <<>>]
    /\ look = NoLook
    /\ ax = NewAxes
    /\ call = NoCall
    /\ fig = NoFig

\* h = Hist(data, bins, bin_range, counted, weights, include_error, normalize)
NewHist ==
    /\ pc = "start"
    /\ \E data \in DataArrays, bins \in BinChoices,
          counted \in BOOLEAN, include_error \in BOOLEAN, normalize \in BOOLEAN :
         \* bin_range is not read in pre-counted mode
         \E weights \in WeightChoices(data),
            bin_range \in IF counted THEN {NoRange} ELSE RangeChoices :
            LET r == HistInit(data, bins, bin_range, counted, weights,
                              include_error, normalize)
            IN  /\ args' = [data |-> data, bins |-> bins, bin_range |-> bin_range,
                            counted |-> counted, weights |-> weights,
                            include_error |-> include_error, normalize |-> normalize]
                /\ exc' = [type |-> r.raised, at |-> r.at]
                /\ self' = r.obj
                /\ pc' = IF r.raised = "none" THEN "constructed" ELSE "raised"
    /\ UNCHANGED <<lim_args, lim, look, ax, call, fig>>

Next == NewHist

Spec == Init /\ [][Next]_vars

----------------------------------------------------------------------------
\* Properties of Hist.__init__

Constructed == pc = "constructed"

\* the weight of each sample as the caller gave it (1 without weights)
GivenWeights == IF args.weights.given THEN args.weights.v ELSE [i \in 1..Len(args.data) |-> 1]

\* the samples inside bin_range, both ends included (all of them without a range)
InRange ==
    {k \in 1..Len(args.data) :
        args.bin_range.given =>
            /\ args.bin_range.lo <= args.data[k]
            /\ args.data[k] <= args.bin_range.hi}

RawIntCase ==
    /\ Constructed
    /\ ~args.counted
    /\ args.bins.kind = "int"
    /\ ~args.normalize

\* C1 as stated: raw mode, integer bin count, normalize=False, with or without
\* bin_range: the stored counts sum to the number of samples, or to the sum of
\* the weights when weights are given.
C1_SumIsAllSamples ==
    RawIntCase =>
        RatEq(RatSumSeq(self.data), Rat(SumIdx(GivenWeights, 1..Len(args.data)), 1))

\* C1 amended: raw mode, integer bin count, normalize=False: the stored counts
\* sum to the number (the weight sum, with weights) of the samples that lie
\* inside bin_range, which is every sample when no bin_range is given.
C1_SumIsSamplesInRange ==
    RawIntCase =>
        /\ RatEq(RatSumSeq(self.data), Rat(SumIdx(GivenWeights, InRange), 1))
        /\ ~args.bin_range.given => InRange = 1..Len(args.data)

C1_Witness ==
    /\ RawIntCase
    /\ args.bin_range.given
    /\ args.weights.given
    /\ args.bins.n = 2
    /\ InRange # {}
    /\ InRange # 1..Len(args.data)

\* C2: after construction with normalize=True the stored counts sum to 1 (raw
\* mode: any bins, any bin_range, with or without weights; pre-counted mode:
\* any counts with a non-zero total).  Stated for a divisor that is not zero:
\* at least one sample in raw mode, a non-zero total in pre-counted mode.
C2_NormalizedSumsToOne ==
    (/\ Constructed
     /\ args.normalize
     /\ IF args.counted THEN SumSeq(args.data) # 0 ELSE Len(args.data) > 0)
    => /\ \A i \in 1..Len(self.data) : IsFinite(self.data[i])
       /\ RatEq(RatSumSeq(self.data), Rat(1, 1))

\* C3: counted=True with an integer bins raises ValueError whatever the length
\* of data, and no Hist object exists afterwards.
C3_CountedIntBinsRaises ==
    (pc # "start" /\ args.counted /\ args.bins.kind = "int") =>
        /\ pc = "raised"
        /\ exc.type = "ValueError"
        /\ self = NoneHist

C3_Witness ==
    /\ pc = "raised"
    /\ args.counted
    /\ args.bins.kind = "int"
    /\ exc = [type |-> "ValueError", at |-> "int bins"]
    /\ Len(args.data) = args.bins.n

\* C4: counted=True with an array of bin edges raises ValueError whenever
\* len(data) != len(bins) - 1, and passes the length check (the object is
\* built, the weights being of the right length) whenever they are equal.
C4_CountedLengthCheck ==
    (pc # "start" /\ args.counted /\ args.bins.kind = "array") =>
        IF Len(args.data) # Len(args.bins.edges) - 1
        THEN pc = "raised" /\ exc.type = "ValueError" /\ self = NoneHist
        ELSE /\ exc.at # "length"
             /\ (~args.weights.given \/ Len(args.weights.v) = Len(args.data))
                    => Constructed

C4_Witness ==
    /\ pc = "raised"
    /\ args.counted
    /\ args.bins.kind = "array"
    /\ exc = [type |-> "ValueError", at |-> "length"]
    /\ Len(args.data) = Len(args.bins.edges)

\* C5: weights whose length differs from that of data make the construction
\* raise at the length check, before any binning, in raw and in pre-counted
\* mode; with weights=None the weights attribute is all ones, one per entry
\* of data.
C5_WeightsLengthChecked ==
    /\ (pc # "start" /\ args.weights.given /\ Len(args.weights.v) # Len(args.data))
          => pc = "raised" /\ exc.at = "check_shape" /\ self = NoneHist
    /\ (Constructed /\ ~args.weights.given)
          => /\ Len(self.weights) = Len(args.data)
             /\ \A i \in 1..Len(self.weights) : self.weights[i] = 1

C5_Witness ==
    /\ pc = "raised"
    /\ ~args.counted
    /\ args.weights.given
    /\ Len(args.weights.v) = Len(args.data) + 1
    /\ exc.at = "check_shape"
    /\ args.bins.kind = "int"

\* the samples in bin i of the stored bin edges
InStoredBin(i) ==
    {k \in 1..Len(args.data) :
        /\ RatLE(self.bins[i], Rat(args.data[k], 1))
        /\ IF i = Len(self.bins) - 1
           THEN RatLE(Rat(args.data[k], 1), self.bins[i + 1])
           ELSE RatLT(Rat(args.data[k], 1), self.bins[i + 1])}

SquaredWeights == [k \in 1..Len(args.data) |-> GivenWeights[k] * GivenWeights[k]]

\* C6: raw mode, include_error=True, normalize=False: err[i] is the square
\* root of the sum of the squared weights of the samples in bin i of the
\* stored bin edges (integer or array bins, with or without bin_range), which
\* is sqrt(count[i]) without weights.
C6_ErrOfStoredBins ==
    (Constructed /\ ~args.counted /\ args.include_error /\ ~args.normalize) =>
        /\ self.err.present
        /\ Len(self.err.v) = Len(self.bins) - 1
        /\ \A i \in 1..Len(self.err.v) :
              /\ SurdEq(self.err.v[i], Surd(1, SumIdx(SquaredWeights, InStoredBin(i)), 1))
              /\ ~args.weights.given =>
                    SurdEq(self.err.v[i], Surd(1, self.data[i].num, self.data[i].den))

BaseCounts ==
    IF args.counted THEN args.data
    ELSE np_histogram(args.data, args.bins, args.bin_range, args.weights).hist

BaseErr ==
    IF args.counted THEN CountedErr(args.data, args.weights, args.include_error)
    ELSE RawErr(args.data, args.bins, args.bin_range, args.weights, BaseCounts,
                args.include_error)

\* the divisor C8 names
Divisor ==
    IF args.counted THEN SumIdx(args.data, 1..Len(args.data))
    ELSE SumIdx(GivenWeights, 1..Len(args.data))

\* value = base / d; a division by zero gives a non-finite value
IsQuotient(num, den, bnum, bden, d) ==
    IF d = 0 THEN den = 0 ELSE den # 0 /\ num * bden * d = bnum * den

\* C8: with normalize=True the counts and, when present, err are divided by
\* the same divisor: the sum of all weights in raw mode (the number of samples
\* without weights), the sum of the counts in pre-counted mode; with
\* normalize=False neither is changed.
C8_NormalizationDivisor ==
    Constructed =>
        /\ Len(self.data) = Len(BaseCounts)
        /\ self.err.present = BaseErr.present
        /\ Len(self.err.v) = Len(BaseErr.v)
        /\ \A i \in 1..Len(self.data) :
              IF args.normalize
              THEN IsQuotient(self.data[i].num, self.data[i].den, BaseCounts[i], 1, Divisor)
              ELSE self.data[i] = Rat(BaseCounts[i], 1)
        /\ \A i \in 1..Len(self.err.v) :
              IF args.normalize
              THEN /\ self.err.v[i].rad = BaseErr.v[i].rad
                   /\ IsQuotient(self.err.v[i].coef, self.err.v[i].den,
                                 BaseErr.v[i].coef, BaseErr.v[i].den, Divisor)
              ELSE self.err.v[i] = BaseErr.v[i]

C8_Witness ==
    /\ Constructed
    /\ ~args.counted
    /\ args.normalize
    /\ args.include_error
    /\ args.weights.given
    /\ args.bin_range.given
    /\ InRange # 1..Len(args.data)
    /\ \E i \in 1..Len(self.data) : self.data[i].num # 0

----------------------------------------------------------------------------
\* The calls of compute_auto_limits explored

\* The extreme values of one dataset: -1, 0, 1, 3, 10 and a tenth of each
LimNums == {0 - 1, 0, 1, 3, 10}
LimDens == {1, 10}
LimVals == {Rat(n, d) : n \in LimNums, d \in LimDens}

\* <<min, max>> of one drawn dataset
Extremes == {p \in LimVals \X LimVals : RatLE(p[1], p[2])}

\* lim = compute_auto_limits(min_arr, max_arr, log), the arrays holding the
\* minimum and the maximum of each dataset
AutoLimits ==
    /\ pc = "start"
    /\ \E k \in 0..MaxSets, log \in BOOLEAN :
         \E sets \in [1..k -> Extremes] :
            LET min_arr == [i \in 1..k |-> sets[i][1]]
                max_arr == [i \in 1..k |-> sets[i][2]]
            IN  /\ lim_args' = [min_arr |-> min_arr, max_arr |-> max_arr, log |-> log]
                /\ lim' = compute_auto_limits(min_arr, max_arr, log)
                /\ pc' = "limits"
    /\ UNCHANGED <<args, self, exc, look, ax, call, fig>>

NextLimits == AutoLimits

SpecLimits == Init /\ [][NextLimits]_vars

----------------------------------------------------------------------------
\* Properties of compute_auto_limits

Range(s) == {s[i] : i \in 1..Len(s)}

\* the minimum of min_arr and the maximum of max_arr
Low == CHOOSE m \in Range(lim_args.min_arr) : \A x \in Range(lim_args.min_arr) : RatLE(m, x)
High == CHOOSE m \in Range(lim_args.max_arr) : \A x \in Range(lim_args.max_arr) : RatLE(x, m)

LimitsReturned == pc = "limits" /\ lim.raised = "none"

\* C9: with log=False the result is [low - 0.04*span, high + 0.04*span], low
\* the minimum of min_arr, high the maximum of max_arr, span = high - low
\* (stated as 25*lo = 26*low - high and 25*hi = 26*high - low); the interval
\* contains [low, high] and is the point low when low = high.
C9_LinearPadding ==
    (LimitsReturned /\ ~lim_args.log) =>
        /\ Len(lim.v) = 2
        /\ IsFinite(lim.v[1]) /\ IsFinite(lim.v[2])
        /\ lim.v[1].den > 0 /\ lim.v[2].den > 0
        /\ RatEq(RatMul(Rat(25, 1), lim.v[1]), RatSub(RatMul(Rat(26, 1), Low), High))
        /\ RatEq(RatMul(Rat(25, 1), lim.v[2]), RatSub(RatMul(Rat(26, 1), High), Low))
        /\ RatLE(lim.v[1], Low) /\ RatLE(High, lim.v[2])
        /\ RatEq(Low, High) => RatEq(lim.v[1], Low) /\ RatEq(lim.v[2], Low)

C9_Witness ==
    /\ LimitsReturned
    /\ ~lim_args.log
    /\ Len(lim_args.min_arr) = 2
    /\ RatLT(lim_args.min_arr[2], lim_args.min_arr[1])
    /\ RatLT(lim_args.max_arr[2], lim_args.max_arr[1])
    /\ RatLT(lim.v[1], Low)
    /\ Low.num < 0

Exponents == (0 - 3)..3

IsPowerOfTen(x) == \E e \in Exponents : RatEq(x, TenTo(e))

\* C10: with log=True and a positive minimum the result is [L, H], L the
\* largest power of ten <= min(min_arr) and H the smallest power of ten
\* >= max(max_arr), nothing added: L <= min < 10*L and H/10 < max <= H.
C10_LogRounding ==
    (LimitsReturned /\ lim_args.log /\ Low.num > 0) =>
        /\ Len(lim.v) = 2
        /\ IsFinite(lim.v[1]) /\ IsFinite(lim.v[2])
        /\ IsPowerOfTen(lim.v[1]) /\ IsPowerOfTen(lim.v[2])
        /\ RatLE(lim.v[1], Low)
        /\ RatLT(Low, RatMul(Rat(10, 1), lim.v[1]))
        /\ RatLE(High, lim.v[2])
        /\ RatLT(lim.v[2], RatMul(Rat(10, 1), High))

C10_Witness ==
    /\ LimitsReturned
    /\ lim_args.log
    /\ Low.num > 0
    /\ RatLT(Low, Rat(1, 1))
    /\ ~IsPowerOfTen(Low)
    /\ RatEq(High, Rat(10, 1))
    /\ RatEq(lim.v[1], Rat(1, 10))
    /\ RatEq(lim.v[2], Rat(10, 1))

----------------------------------------------------------------------------
\* utils.decorate_legend and utils.grid_adjuster

\* legend settings: a preset name, or a dict of ax.legend keywords
StrSettings(s) == [kind |-> "str", s |-> s]
DictSettings == [kind |-> "dict", s |-> ""]

\* ax.legend(handles, labels, ...)
AxLegend(a, handles, labels, loc) ==
    [a EXCEPT !.legend = [on |-> TRUE, handles |-> handles, labels |-> labels, loc |-> loc]]

\* an unknown name treated as the inside preset
decorate_legend_lenient(a, handles, labels, settings) ==
    IF settings.kind = "str"
    THEN IF settings.s = "default outside"
         THEN AxLegend(a, handles, labels, "upper left, outside")
         ELSE IF settings.s \in {"fancy inside", "fancy_outside"} THEN a
         ELSE AxLegend(a, handles, labels, "best")
    ELSE AxLegend(a, handles, labels, "custom")

\* decorate_legend(ax, handles, labels, settings): the axes afterwards
decorate_legend(a, handles, labels, settings) ==
    IF settings.kind = "str"
    THEN IF settings.s = "default inside"
         THEN AxLegend(a, handles, labels, "best")
         ELSE IF settings.s = "default outside"
         THEN AxLegend(a, handles, labels, "upper left, outside")
         \* "fancy inside", "fancy_outside" and every other name only print
         ELSE a
    ELSE AxLegend(a, handles, labels, "custom")

\* options = {"line": "-", "dash": "--", "dot": ":"}
GridOptions == {"line", "dash", "dot"}

Linestyle(t) == IF t = "line" THEN "-" ELSE IF t = "dash" THEN "--" ELSE ":"

\* ax.grid(which=..., linestyle=...)
AxGrid(a, which, linestyle) ==
    [a EXCEPT !.grid = Append(@, [which |-> which, linestyle |-> linestyle])]

\* grid_adjuster(ax, preset): the axes afterwards; settings is preset.split("-"),
\* which has at least one component
grid_adjuster(a, settings) ==
    IF ~(\A i \in 1..Len(settings) : settings[i] \in GridOptions) THEN a
    ELSE IF Len(settings) = 1 THEN AxGrid(a, "major", Linestyle(settings[1]))
    ELSE IF Len(settings) = 2
    THEN AxGrid(AxGrid(a, "major", Linestyle(settings[1])), "minor", Linestyle(settings[2]))
    ELSE a

LegendNames ==
    {"default inside", "default outside", "fancy inside", "fancy_outside",
     "default_inside", "best"}

LegendSettings == {StrSettings(n) : n \in LegendNames} \cup {DictSettings}

\* the most components of a grid preset explored
MaxParts == 3

GridPresets ==
    UNION {[1..k -> GridOptions \cup {"dashdot"}] : k \in 1..MaxParts}

\* the handles and labels handed to decorate_legend
SomeHandles == {<<>>, <<"h1">>, <<"h1", "h2">>}

CallDecorateLegend ==
    /\ pc \in {"start", "decorated"}
    /\ Len(ax.grid) + (IF ax.legend.on THEN 1 ELSE 0) < MaxCalls
    /\ \E settings \in LegendSettings, handles \in SomeHandles :
         /\ ax' = decorate_legend(ax, handles, handles, settings)
         /\ call' = [fn |-> "decorate_legend", raised |-> "none", settings |-> settings]
    /\ pc' = "decorated"
    /\ UNCHANGED <<args, self, exc, lim_args, lim, look, fig>>

CallGridAdjuster ==
    /\ pc \in {"start", "decorated"}
    /\ Len(ax.grid) + (IF ax.legend.on THEN 1 ELSE 0) < MaxCalls
    /\ \E preset \in GridPresets :
         /\ ax' = grid_adjuster(ax, preset)
         /\ call' = [fn |-> "grid_adjuster", raised |-> "none", preset |-> preset]
    /\ pc' = "decorated"
    /\ UNCHANGED <<args, self, exc, lim_args, lim, look, fig>>

NextDecor == CallDecorateLegend \/ CallGridAdjuster

SpecDecor == Init /\ [][NextDecor]_vars

RecognisedLegend(settings) ==
    settings.kind = "str" =>
        settings.s \in {"default inside", "default outside", "fancy inside", "fancy_outside"}

ValidGridPreset(preset) ==
    /\ Len(preset) <= 2
    /\ \A i \in 1..Len(preset) : preset[i] \in {"line", "dash", "dot"}

\* C11: decorate_legend with a string that is no recognised preset, and
\* grid_adjuster with a preset that has a component other than line / dash / dot
\* or more than two components, do not raise and leave the axes as they were
\* (no legend call, no grid call).
C11_UnknownPresetSkipped ==
    [][(\/ /\ call'.fn = "decorate_legend"
           /\ pc' = "decorated"
           /\ ~RecognisedLegend(call'.settings)
        \/ /\ call'.fn = "grid_adjuster"
           /\ pc' = "decorated"
           /\ ~ValidGridPreset(call'.preset))
       => (ax' = ax /\ call'.raised = "none")]_vars

C11_Witness ==
    /\ pc = "decorated"
    /\ call.fn = "grid_adjuster"
    /\ Len(call.preset) = 2
    /\ call.preset[1] = "line"
    /\ call.preset[2] = "dashdot"
    /\ ax.legend.on
    /\ ax.grid = <<>>

----------------------------------------------------------------------------
\* The draw methods of the plot objects (plot_objects/standard2d.py)

MaxDraws == 2      \* most draw calls on one Hist

\* something drawn on the axes; verts are the corners of a polygon
Artist(kind, verts) == [kind |-> kind, verts |-> verts]

\* what a drawing call returns: the artist's class and its place on the axes
Handle(kind, id) == [kind |-> kind, id |-> id]
NoneHandle == Handle("None", 0)

AddArtist(a, kind, verts) == [a EXCEPT !.artists = Append(@, Artist(kind, verts))]

DrawResult(raised, handle, a) == [raised |-> raised, handle |-> handle, ax |-> a]

\* PointsLines.draw: handle, = ax.plot(...); return handle
PointsLinesDraw(a) ==
    DrawResult("none", Handle("Line2D", Len(a.artists) + 1), AddArtist(a, "lines", <<>>))

\* ErrorBar.draw: ax.errorbar(...), nothing returned
ErrorBarDraw(a) ==
    DrawResult("none", NoneHandle, AddArtist(a, "errorbar", <<>>))

\* a corner (x, y + sign * e) of the uncertainty polygon
Vertex(x, y, e, sign) == [x |-> x, y |-> y, e |-> e, sign |-> sign]

\* lines 216-221: for i in range(len(bin_edges)-1), from i on
RECURSIVE UpperEdge(_, _, _, _)
UpperEdge(bin_edges, data, err, i) ==
    IF i >= Len(bin_edges) - 1 THEN <<>>
    ELSE <<Vertex(bin_edges[i + 1], data[i + 1], err[i + 1], 1),
           Vertex(bin_edges[i + 2], data[i + 1], err[i + 1], 1)>>
         \o UpperEdge(bin_edges, data, err, i + 1)

\* the lower edge with each bin's two corners left to right
RECURSIVE LowerEdgeNotReversed(_, _, _, _)
LowerEdgeNotReversed(bin_edges, data, err, i) ==
    IF i <= 0 THEN <<>>
    ELSE <<Vertex(bin_edges[i], data[i], err[i], 0 - 1),
           Vertex(bin_edges[i + 1], data[i], err[i], 0 - 1)>>
         \o LowerEdgeNotReversed(bin_edges, data, err, i - 1)

\* lines 224-229: for i in range(len(bin_edges)-1, 0, -1), from i down
RECURSIVE LowerEdge(_, _, _, _)
LowerEdge(bin_edges, data, err, i) ==
    IF i <= 0 THEN <<>>
    ELSE <<Vertex(bin_edges[i + 1], data[i], err[i], 0 - 1),
           Vertex(bin_edges[i], data[i], err[i], 0 - 1)>>
         \o LowerEdge(bin_edges, data, err, i - 1)

\* lines 213-229: verts of the "ATLAS" polygon
AtlasVerts(h) ==
    UpperEdge(h.bins, h.data, h.err.v, 0)
    \o LowerEdge(h.bins, h.data, h.err.v, Len(h.bins) - 1)

HistTypes == {"step", "stepfilled", "bar", "point"}
ErrStyles == {"ATLAS", "fillbetween", "errorbar"}

\* an unknown hist_type drawn as the default "stepfilled"
DrawBodyDefaultsToStepfilled(lk, a) ==
    IF lk.hist_type = "step"
    THEN DrawResult("none", Handle("StepPatch", Len(a.artists) + 1),
                    AddArtist(a, "stairs", <<>>))
    ELSE IF lk.hist_type = "bar"
    THEN DrawResult("none", Handle("BarContainer", Len(a.artists) + 1),
                    AddArtist(a, "bar", <<>>))
    ELSE IF lk.hist_type = "point"
    THEN DrawResult("AttributeError", NoneHandle, a)
    ELSE DrawResult("none", Handle("StepPatch", Len(a.artists) + 1),
                    AddArtist(a, "stairs filled", <<>>))

\* lines 188-205: the histogram body.  ax.stairs returns a StepPatch, ax.bar a
\* BarContainer; ax.plot rejects the keyword mc (no Line2D property) with an
\* AttributeError; any other hist_type raises ValueError.
DrawBody(lk, a) ==
    IF lk.hist_type = "step"
    THEN DrawResult("none", Handle("StepPatch", Len(a.artists) + 1),
                    AddArtist(a, "stairs", <<>>))
    ELSE IF lk.hist_type = "stepfilled"
    THEN DrawResult("none", Handle("StepPatch", Len(a.artists) + 1),
                    AddArtist(a, "stairs filled", <<>>))
    ELSE IF lk.hist_type = "bar"
    THEN DrawResult("none", Handle("BarContainer", Len(a.artists) + 1),
                    AddArtist(a, "bar", <<>>))
    ELSE IF lk.hist_type = "point"
    THEN DrawResult("AttributeError", NoneHandle, a)
    ELSE DrawResult("ValueError", NoneHandle, a)

\* lines 208-264: the uncertainty, drawn after the body.  handle.get_edgecolor()
\* exists on a StepPatch and not on a BarContainer.
DrawErr(h, lk, body) ==
    IF ~h.err.present THEN body
    ELSE IF lk.err_style = "ATLAS"
    THEN DrawResult("none", body.handle, AddArtist(body.ax, "polygon", AtlasVerts(h)))
    ELSE IF lk.err_style = "fillbetween"
    THEN IF body.handle.kind = "StepPatch"
         THEN DrawResult("none", body.handle, AddArtist(body.ax, "fill_between", <<>>))
         ELSE DrawResult("AttributeError", NoneHandle, body.ax)
    ELSE IF lk.err_style = "errorbar"
    THEN DrawResult("none", body.handle, ErrorBarDraw(body.ax).ax)
    ELSE body

\* Hist.draw(ax): what it returns or raises, and the axes afterwards
HistDraw(h, lk, a) ==
    LET body == DrawBody(lk, a)
    IN  IF body.raised # "none" THEN body ELSE DrawErr(h, lk, body)

\* the attributes written by a draw: the band limits kept on the object
HistAfterDrawKeepsBand(h, lk) ==
    IF h.err.present /\ lk.err_style = "fillbetween"
    THEN [h EXCEPT !.data = h.data \o <<h.data[Len(h.data)]>>]
    ELSE h

\* the Hist attributes after draw: draw assigns to no attribute
HistAfterDraw(h, lk) == h

\* the calls whose drawing is explored: unweighted, without bin_range
DrawnCalls ==
    {[data |-> d, bins |-> b, bin_range |-> NoRange, counted |-> c,
      weights |-> NoWeights, include_error |-> e, normalize |-> n] :
        d \in DataArrays, b \in BinChoices, c \in BOOLEAN, e \in BOOLEAN, n \in BOOLEAN}

Looks ==
    {[hist_type |-> t, err_style |-> e, label |-> NoLabel] :
        t \in HistTypes \cup {"line"}, e \in ErrStyles \cup {"band"}}

\* h = Hist(..., hist_type=, err_style=): the constructor with its appearance
\* arguments (lines 177-181), on the calls whose array bins go with counted
\* data and whose integer bins go with raw data
NewStyledHist ==
    /\ pc = "start"
    /\ \E a \in {c \in DrawnCalls : c.counted <=> c.bins.kind = "array"}, lk \in Looks :
         LET r == HistInit(a.data, a.bins, a.bin_range, a.counted, a.weights,
                           a.include_error, a.normalize)
         IN  /\ args' = a
             /\ exc' = [type |-> r.raised, at |-> r.at]
             /\ self' = r.obj
             /\ look' = IF r.raised = "none" THEN lk ELSE NoLook
             /\ pc' = IF r.raised = "none" THEN "constructed" ELSE "raised"
    /\ UNCHANGED <<lim_args, lim, ax, call, fig>>

DrawsMade == IF call.fn = "draw" THEN call.n ELSE 0

\* h.draw(ax)
Draw ==
    /\ pc \in {"constructed", "drawn"}
    /\ DrawsMade < MaxDraws
    /\ LET r == HistDraw(self, look, ax)
       IN  /\ ax' = r.ax
           /\ call' = [fn |-> "draw", raised |-> r.raised, handle |-> r.handle,
                       n |-> DrawsMade + 1]
           /\ self' = HistAfterDraw(self, look)
    /\ pc' = "drawn"
    /\ UNCHANGED <<args, exc, lim_args, lim, look, fig>>

NextDraw == NewStyledHist \/ Draw

SpecDraw == Init /\ [][NextDraw]_vars

\* the artists of the given kinds on the axes, in drawing order
ArtistsOf(a, kinds) == SelectSeq(a.artists, LAMBDA t : t.kind \in kinds)

UncertaintyKinds == {"polygon", "fill_between", "errorbar"}

\* the artist kind each err_style stands for
StyleKind(style) ==
    IF style = "ATLAS" THEN "polygon"
    ELSE IF style = "fillbetween" THEN "fill_between"
    ELSE "errorbar"

\* the first draw of a Hist has put the histogram body on the axes
BodyDrawn == pc = "drawn" /\ call.fn = "draw" /\ call.n = 1 /\ ax.artists # <<>>

\* C15: once the body of the histogram is drawn, Hist.draw renders no
\* uncertainty when err is None, exactly one uncertainty artist of the chosen
\* style when err is present and err_style is one of the three, and for any
\* other err_style no uncertainty, no exception, and the body's handle returned.
C15_OneUncertaintyStyle ==
    BodyDrawn =>
        LET unc == ArtistsOf(ax, UncertaintyKinds)
        IN  /\ ~self.err.present => unc = <<>>
            /\ (self.err.present /\ look.err_style \in ErrStyles) =>
                   /\ Len(unc) = 1
                   /\ unc[1].kind = StyleKind(look.err_style)
                   /\ call.raised = "none"
            /\ (self.err.present /\ look.err_style \notin ErrStyles) =>
                   /\ unc = <<>>
                   /\ call.raised = "none"
                   /\ call.handle.kind # "None"
                   /\ call.handle.id = 1

\* the first draw of a Hist with err present has drawn the "ATLAS" polygon
AtlasDrawn ==
    /\ BodyDrawn
    /\ self.err.present
    /\ look.err_style = "ATLAS"

\* vertices j..k of v have non-decreasing (dir = 1) or non-increasing x
Monotone(v, j, k, dir) ==
    \A m \in j..(k - 1) :
        IF dir = 1 THEN RatLE(v[m].x, v[m + 1].x) ELSE RatLE(v[m + 1].x, v[m].x)

\* C16: for a Hist with n bins and err present the "ATLAS" polygon has 4n
\* vertices: for i = 0..n-1 in order (edge[i], count[i]+err[i]) then
\* (edge[i+1], count[i]+err[i]); then for i = n-1 down to 0
\* (edge[i+1], count[i]-err[i]) then (edge[i], count[i]-err[i]); x is
\* non-decreasing along the first 2n vertices and non-increasing along the rest.
C16_AtlasPolygonVertices ==
    AtlasDrawn =>
        LET n == Len(self.data)
            polys == ArtistsOf(ax, {"polygon"})
            v == polys[1].verts
            edge == self.bins
            count == self.data
            err == self.err.v
        IN  /\ Len(polys) = 1
            /\ Len(v) = 4 * n
            /\ \A i \in 0..(n - 1) :
                 /\ v[2 * i + 1] = Vertex(edge[i + 1], count[i + 1], err[i + 1], 1)
                 /\ v[2 * i + 2] = Vertex(edge[i + 2], count[i + 1], err[i + 1], 1)
                 /\ v[2 * n + 2 * (n - 1 - i) + 1]
                        = Vertex(edge[i + 2], count[i + 1], err[i + 1], 0 - 1)
                 /\ v[2 * n + 2 * (n - 1 - i) + 2]
                        = Vertex(edge[i + 1], count[i + 1], err[i + 1], 0 - 1)
            /\ Monotone(v, 1, 2 * n, 1)
            /\ Monotone(v, 2 * n + 1, 4 * n, 0 - 1)

C16_Witness ==
    /\ AtlasDrawn
    /\ Len(self.data) = 2
    /\ look.hist_type = "step"
    /\ self.data[1] # self.data[2]

\* C18: a Hist.draw call, whatever hist_type and err_style and however many
\* calls came before, leaves data, bins, err, weights and normalize unchanged.
C18_DrawLeavesHistUnchanged ==
    [][(pc \in {"constructed", "drawn"} /\ pc' = "drawn" /\ call'.fn = "draw") =>
          /\ self'.data = self.data
          /\ self'.bins = self.bins
          /\ self'.err = self.err
          /\ self'.weights = self.weights
          /\ self'.normalize = self.normalize]_vars

C18_Witness ==
    /\ pc = "drawn"
    /\ call.fn = "draw"
    /\ call.n = MaxDraws
    /\ call.raised = "none"
    /\ self.err.present
    /\ self.normalize
    /\ look.err_style = "fillbetween"
    /\ Len(ArtistsOf(ax, {"fill_between"})) = MaxDraws

----------------------------------------------------------------------------
\* The plot containers: PlotBase (core.py), BasicPlot (plot_classes/basic.py)
\* and HistPlot (plot_classes/hist.py)

MaxArgs == 2       \* most plot objects handed to one HistPlot.add_data call
MaxPlots == 2      \* most plot() calls on one container

\* STYLE_PRESETS and COLOR_THEMES: the keys of the two preset tables
STYLE_PRESETS == {"default", "publication small", "publication", "presentation", "ATLAS"}
COLOR_THEMES == {"light", "dark"}

\* a style / color_theme argument: a name, or a mapping of rcParams
Named(s) == [kind |-> "str", s |-> s]
Mapping == [kind |-> "dict", s |-> ""]

\* a resolved style / colour theme: an entry of the preset table, the mapping
\* the caller gave, or the empty mapping {}
Entry(table, key) == [from |-> table, key |-> key]
GivenMapping == [from |-> "argument", key |-> ""]
EmptyMapping == [from |-> "{}", key |-> ""]

\* core.py 110-115: STYLE_PRESETS.get(style, STYLE_PRESETS["default"])
ResolveStyle(style) ==
    IF style.kind = "str"
    THEN IF style.s \in STYLE_PRESETS THEN Entry("STYLE_PRESETS", style.s)
         ELSE Entry("STYLE_PRESETS", "default")
    ELSE GivenMapping

\* core.py 118-123: COLOR_THEMES.get(color_theme, {})
ResolveColorTheme(color_theme) ==
    IF color_theme.kind = "str"
    THEN IF color_theme.s \in COLOR_THEMES THEN Entry("COLOR_THEMES", color_theme.s)
         ELSE EmptyMapping
    ELSE GivenMapping

\* legend_settings: None, or a preset name / dict
NoSettings == [given |-> FALSE, v |-> StrSettings("")]
Settings(v) == [given |-> TRUE, v |-> v]

\* the defaults of PlotBase.__init__ and BasicPlot.__init__
DefaultLegendSettings == Settings(StrSettings("default_inside"))
DefaultStyle == Named("default")
DefaultColorTheme == Named("light")

Config(cls, xlim, ylim, xlog_on, ylog_on, legend_settings, style, color_theme) ==
    [cls |-> cls, xlim |-> xlim, ylim |-> ylim, xlog_on |-> xlog_on, ylog_on |-> ylog_on,
     legend_settings |-> legend_settings, style |-> style, color_theme |-> color_theme]

\* BasicPlot(...) / HistPlot(...): the attributes after construction
\* (core.py 60-123, basic.py 60-95, hist.py 35-41); plots counts the plot()
\* calls, arg_xlim and arg_ylim keep the limits the constructor was called with
PlotInit(cfg) ==
    [cls |-> cfg.cls, xlim |-> cfg.xlim, ylim |-> cfg.ylim,
     xlog_on |-> cfg.xlog_on, ylog_on |-> cfg.ylog_on,
     legend_on |-> cfg.legend_settings.given, legend_settings |-> cfg.legend_settings.v,
     datasets |-> <<>>, legend_handles |-> <<>>, legend_labels |-> <<>>,
     style_str |-> IF cfg.style.kind = "str" THEN cfg.style.s ELSE "custom",
     style |-> ResolveStyle(cfg.style),
     color_theme_str |-> IF cfg.color_theme.kind = "str" THEN cfg.color_theme.s ELSE "custom",
     color_theme |-> ResolveColorTheme(cfg.color_theme),
     plots |-> 0, arg_xlim |-> cfg.xlim, arg_ylim |-> cfg.ylim]

\* the plot objects a container holds
PointsLines(xdata, ydata, label) ==
    [cls |-> "PointsLines", label |-> label, xdata |-> xdata, ydata |-> ydata,
     hist |-> NoneHist, look |-> NoLook]
ErrorBar(xdata, ydata, label) ==
    [cls |-> "ErrorBar", label |-> label, xdata |-> xdata, ydata |-> ydata,
     hist |-> NoneHist, look |-> NoLook]
HistObject(h, lk) ==
    [cls |-> "Hist", label |-> lk.label, xdata |-> <<>>, ydata |-> <<>>,
     hist |-> h, look |-> lk]
\* something that is no Standard2dObject
NotAPlotObject ==
    [cls |-> "str", label |-> NoLabel, xdata |-> <<>>, ydata |-> <<>>,
     hist |-> NoneHist, look |-> NoLook]

\* HistPlot.ALLOWED_TYPES; Step and FillBetween define no draw and cannot be instantiated
ALLOWED_TYPES == {"Hist", "PointsLines", "ErrorBar", "FillBetween"}

AddResult(raised, datasets) == [raised |-> raised, datasets |-> datasets]

\* each valid argument put at the front of the sequence
RECURSIVE HistPlotAddDataAtFront(_, _, _)
HistPlotAddDataAtFront(datasets, plot_objects, i) ==
    IF i > Len(plot_objects) THEN AddResult("none", datasets)
    ELSE IF plot_objects[i].cls \notin ALLOWED_TYPES THEN AddResult("TypeError", datasets)
    ELSE HistPlotAddDataAtFront(<<plot_objects[i]>> \o datasets, plot_objects, i + 1)

\* hist.py 55-61: append each argument in turn, TypeError at the first invalid one
RECURSIVE HistPlotAddData(_, _, _)
HistPlotAddData(datasets, plot_objects, i) ==
    IF i > Len(plot_objects) THEN AddResult("none", datasets)
    ELSE IF plot_objects[i].cls \notin ALLOWED_TYPES THEN AddResult("TypeError", datasets)
    ELSE HistPlotAddData(Append(datasets, plot_objects[i]), plot_objects, i + 1)

\* basic.py 100-114 (object_type lower-cased): only the points/line types build
\* an object; Hist() without arguments raises TypeError; any other name only prints
BasicPlotAddData(datasets, x_data, y_data, label, object_type) ==
    IF object_type \in {"points", "line", "pointslines"}
    THEN AddResult("none", Append(datasets, PointsLines(x_data, y_data, label)))
    ELSE IF object_type = "hist" THEN AddResult("TypeError", datasets)
    \* y_low, y_mid, y_high = y_data, then the abstract FillBetween
    ELSE IF object_type = "fillbetween"
    THEN AddResult(IF Len(y_data) = 3 THEN "TypeError" ELSE "ValueError", datasets)
    ELSE AddResult("none", datasets)

\* dataset.draw(ax)
DatasetDraw(d, a) ==
    IF d.cls = "Hist" THEN HistDraw(d.hist, d.look, a)
    ELSE IF d.cls = "PointsLines" THEN PointsLinesDraw(a)
    ELSE ErrorBarDraw(a)

\* if label: neither None nor ''
Truthy(label) == ~label.none /\ label.s # ""

\* the locals and attributes a plot() loop works on
LoopState(a, f) ==
    [raised |-> "none", ax |-> a,
     legend_handles |-> f.legend_handles, legend_labels |-> f.legend_labels,
     minx_arr |-> <<>>, maxx_arr |-> <<>>, miny_arr |-> <<>>, maxy_arr |-> <<>>]

\* the loop storing the handle and label of every dataset, labelled or not
RECURSIVE HistPlotLoopNoFilter(_, _, _)
HistPlotLoopNoFilter(datasets, i, st) ==
    IF i > Len(datasets) THEN st
    ELSE LET dataset == datasets[i]
             r == DatasetDraw(dataset, st.ax)
             isHist == dataset.cls = "Hist"
             isPL == dataset.cls = "PointsLines"
             label == dataset.label
         IN  IF r.raised # "none" THEN [st EXCEPT !.raised = r.raised, !.ax = r.ax]
             ELSE HistPlotLoopNoFilter(datasets, i + 1,
                      [st EXCEPT
                          !.ax = r.ax,
                          !.minx_arr = IF isHist THEN Append(@, np_min(dataset.hist.bins))
                                       ELSE IF isPL THEN Append(@, np_min(dataset.xdata))
                                       ELSE @,
                          !.maxx_arr = IF isHist THEN Append(@, np_max(dataset.hist.bins))
                                       ELSE IF isPL THEN Append(@, np_max(dataset.xdata))
                                       ELSE @,
                          !.miny_arr = IF isPL THEN Append(@, np_min(dataset.ydata)) ELSE @,
                          !.maxy_arr = IF isPL THEN Append(@, np_max(dataset.ydata)) ELSE @,
                          !.legend_handles = Append(@, r.handle),
                          !.legend_labels = Append(@, label)])

\* hist.py 86-108: for dataset in self._datasets, from the i-th on
RECURSIVE HistPlotLoop(_, _, _)
HistPlotLoop(datasets, i, st) ==
    IF i > Len(datasets) THEN st
    ELSE LET dataset == datasets[i]
             r == DatasetDraw(dataset, st.ax)
             isHist == dataset.cls = "Hist"
             isPL == dataset.cls = "PointsLines"
             label == dataset.label
         IN  IF r.raised # "none" THEN [st EXCEPT !.raised = r.raised, !.ax = r.ax]
             ELSE HistPlotLoop(datasets, i + 1,
                      [st EXCEPT
                          !.ax = r.ax,
                          !.minx_arr = IF isHist THEN Append(@, np_min(dataset.hist.bins))
                                       ELSE IF isPL THEN Append(@, np_min(dataset.xdata))
                                       ELSE @,
                          !.maxx_arr = IF isHist THEN Append(@, np_max(dataset.hist.bins))
                                       ELSE IF isPL THEN Append(@, np_max(dataset.xdata))
                                       ELSE @,
                          !.miny_arr = IF isPL THEN Append(@, np_min(dataset.ydata)) ELSE @,
                          !.maxy_arr = IF isPL THEN Append(@, np_max(dataset.ydata)) ELSE @,
                          !.legend_handles = IF Truthy(label) THEN Append(@, r.handle) ELSE @,
                          !.legend_labels = IF Truthy(label) THEN Append(@, label) ELSE @])

\* the loop storing every handle, and a label only when it is non-empty
RECURSIVE BasicPlotLoopUnpaired(_, _, _)
BasicPlotLoopUnpaired(datasets, i, st) ==
    IF i > Len(datasets) THEN st
    ELSE LET dataset == datasets[i]
             r == DatasetDraw(dataset, st.ax)
         IN  IF r.raised # "none" THEN [st EXCEPT !.raised = r.raised, !.ax = r.ax]
             ELSE BasicPlotLoopUnpaired(datasets, i + 1,
                      [st EXCEPT
                          !.ax = r.ax,
                          !.legend_handles = Append(@, r.handle),
                          !.legend_labels = IF Truthy(dataset.label)
                                           THEN Append(@, dataset.label) ELSE @,
                          !.minx_arr = Append(@, np_min(dataset.xdata)),
                          !.maxx_arr = Append(@, np_max(dataset.xdata)),
                          !.miny_arr = Append(@, np_min(dataset.ydata)),
                          !.maxy_arr = Append(@, np_max(dataset.ydata))])

\* basic.py 129-142: for dataset in self._datasets, from the i-th on
RECURSIVE BasicPlotLoop(_, _, _)
BasicPlotLoop(datasets, i, st) ==
    IF i > Len(datasets) THEN st
    ELSE LET dataset == datasets[i]
             r == DatasetDraw(dataset, st.ax)
         IN  IF r.raised # "none" THEN [st EXCEPT !.raised = r.raised, !.ax = r.ax]
             ELSE BasicPlotLoop(datasets, i + 1,
                      [st EXCEPT
                          !.ax = r.ax,
                          !.legend_handles = Append(@, r.handle),
                          !.legend_labels = Append(@, dataset.label),
                          !.minx_arr = Append(@, np_min(dataset.xdata)),
                          !.maxx_arr = Append(@, np_max(dataset.xdata)),
                          !.miny_arr = Append(@, np_min(dataset.ydata)),
                          !.maxy_arr = Append(@, np_max(dataset.ydata))])

\* core.py 178-184: the scales and limits put on the axes; a limit of None is skipped
apply_axes_settings(a, xlim, ylim, xlog_on, ylog_on) ==
    [a EXCEPT !.xscale = IF xlog_on THEN "log" ELSE @,
              !.yscale = IF ylog_on THEN "log" ELSE @,
              !.xlim = IF xlim.given THEN xlim ELSE @,
              !.ylim = IF ylim.given THEN ylim ELSE @]

\* what a plot() call leaves: the exception raised, the attributes, the axes
PlotResult(raised, f, a) == [raised |-> raised, fig |-> f, ax |-> a]

\* the limit to use: the one on the object, or the computed one
AutoLim(lim_attr, computed) ==
    IF lim_attr.given THEN lim_attr ELSE SomeLim(computed.v[1], computed.v[2])

\* hist.py 110-127: the steps of plot() after the loop
HistPlotFinish(f, st) ==
    LET f1 == [f EXCEPT !.legend_handles = st.legend_handles,
                        !.legend_labels = st.legend_labels]
        xl == compute_auto_limits(st.minx_arr, st.maxx_arr, FALSE)
    IN  IF st.raised # "none" THEN PlotResult(st.raised, f1, st.ax)
        ELSE IF ~f.xlim.given /\ xl.raised # "none" THEN PlotResult(xl.raised, f1, st.ax)
        ELSE LET f2 == [f1 EXCEPT !.xlim = AutoLim(f.xlim, xl)]
                 a1 == apply_axes_settings(st.ax, f2.xlim, f2.ylim, f.xlog_on, f.ylog_on)
                 a2 == IF f.legend_on
                       THEN decorate_legend(a1, f2.legend_handles, f2.legend_labels,
                                            f.legend_settings)
                       ELSE a1
             IN  PlotResult("none", f2, a2)

\* HistPlot.plot()
HistPlotPlot(f, a) == HistPlotFinish(f, HistPlotLoop(f.datasets, 1, LoopState(a, f)))

\* basic.py 144-162: the steps of plot() after the loop
BasicPlotFinish(f, st) ==
    LET f1 == [f EXCEPT !.legend_handles = st.legend_handles,
                        !.legend_labels = st.legend_labels]
        xl == compute_auto_limits(st.minx_arr, st.maxx_arr, f.xlog_on)
        yl == compute_auto_limits(st.miny_arr, st.maxy_arr, f.ylog_on)
    IN  IF st.raised # "none" THEN PlotResult(st.raised, f1, st.ax)
        ELSE IF ~f.xlim.given /\ xl.raised # "none" THEN PlotResult(xl.raised, f1, st.ax)
        ELSE LET f2 == [f1 EXCEPT !.xlim = AutoLim(f.xlim, xl)]
             IN  IF ~f.ylim.given /\ yl.raised # "none" THEN PlotResult(yl.raised, f2, st.ax)
                 ELSE LET f3 == [f2 EXCEPT !.ylim = AutoLim(f.ylim, yl)]
                          a1 == apply_axes_settings(st.ax, f3.xlim, f3.ylim,
                                                    f.xlog_on, f.ylog_on)
                          a2 == IF f.legend_on
                                THEN decorate_legend(a1, f3.legend_handles, f3.legend_labels,
                                                     f.legend_settings)
                                ELSE a1
                      IN  PlotResult("none", f3, a2)

\* BasicPlot.plot()
BasicPlotPlot(f, a) == BasicPlotFinish(f, BasicPlotLoop(f.datasets, 1, LoopState(a, f)))

\* the x / y arrays of the PointsLines and ErrorBar objects explored:
\* [1, 3] and [3, 0.1]
ArrA == <<Rat(1, 1), Rat(3, 1)>>
ArrB == <<Rat(3, 1), Rat(1, 10)>>

\* the Hist explored in containers: Hist([2], bins=[1, 2], counted=True,
\* include_error=True, ...)
ContainerHist ==
    HistInit(<<2>>, ArrayBins(<<1, 2>>), NoRange, TRUE, NoWeights, TRUE, FALSE).obj

HistLook(hist_type, label) ==
    [hist_type |-> hist_type, err_style |-> "ATLAS", label |-> label]

\* the arguments of BasicPlot.add_data explored
BasicChoices ==
    {[x_data |-> ArrA, y_data |-> ArrB, label |-> l, object_type |-> "pointslines"] :
        l \in {NoLabel, Label(""), Label("a")}}
    \cup {[x_data |-> ArrB, y_data |-> ArrA, label |-> Label("b"), object_type |-> t] :
            t \in {"line", "hist", "scatter"}}

\* the plot objects handed to HistPlot.add_data
HistChoices ==
    {HistObject(ContainerHist, HistLook("step", Label("h"))),
     HistObject(ContainerHist, HistLook("step", NoLabel)),
     HistObject(ContainerHist, HistLook("line", Label("h"))),
     PointsLines(ArrA, ArrB, Label("a")),
     PointsLines(ArrB, ArrA, Label("")),
     ErrorBar(ArrA, ArrB, Label("e"))}

\* a limit given to the constructor
GivenLim == SomeLim(Rat(0, 1), Rat(5, 1))

\* constructor calls that vary the limits and log flags, and ones that vary
\* legend_settings
LimitConfigs ==
    {Config(c, xl, yl, xlog, ylog, DefaultLegendSettings, DefaultStyle, DefaultColorTheme) :
        c \in {"BasicPlot", "HistPlot"}, xl \in {NoLim, GivenLim}, yl \in {NoLim, GivenLim},
        xlog \in BOOLEAN, ylog \in BOOLEAN}

LegendConfigs ==
    {Config(c, NoLim, NoLim, FALSE, FALSE, ls, DefaultStyle, DefaultColorTheme) :
        c \in {"BasicPlot", "HistPlot"},
        ls \in {NoSettings, Settings(StrSettings("default inside")), Settings(DictSettings)}}

\* constructor calls that vary style or color_theme (resolved in
\* PlotBase.__init__, the same for both classes)
ThemeConfigs ==
    {Config("BasicPlot", NoLim, NoLim, FALSE, FALSE, DefaultLegendSettings, st,
            DefaultColorTheme) : st \in {Named("ATLAS"), Named("poster"), Mapping}}
    \cup
    {Config("BasicPlot", NoLim, NoLim, FALSE, FALSE, DefaultLegendSettings, DefaultStyle,
            ct) : ct \in {Named("dark"), Named("neon"), Mapping}}

\* p = BasicPlot(...) or p = HistPlot(...): the attributes and the new axes of
\* _setup_fig (no grid_style, text_info or title)
NewPlot ==
    /\ pc = "start"
    /\ \E cfg \in LimitConfigs \cup LegendConfigs \cup ThemeConfigs :
         fig' = PlotInit(cfg)
    /\ ax' = NewAxes
    /\ call' = [fn |-> "__init__", raised |-> "none"]
    /\ pc' = "container"
    /\ UNCHANGED <<args, self, exc, lim_args, lim, look>>

\* p.add_data(x_data, y_data, label, object_type) on a BasicPlot
AddDataBasic ==
    /\ pc = "container"
    /\ fig.cls = "BasicPlot"
    /\ Len(fig.datasets) < MaxSets
    /\ \E c \in BasicChoices :
         LET r == BasicPlotAddData(fig.datasets, c.x_data, c.y_data, c.label, c.object_type)
         IN  /\ fig' = [fig EXCEPT !.datasets = r.datasets]
             /\ call' = [fn |-> "add_data", raised |-> r.raised]
    /\ UNCHANGED <<pc, args, self, exc, lim_args, lim, look, ax>>

\* p.add_data(*plot_objects) on a HistPlot
AddDataHist ==
    /\ pc = "container"
    /\ fig.cls = "HistPlot"
    /\ \E k \in 1..MaxArgs :
         /\ Len(fig.datasets) + k <= MaxSets
         /\ \E plot_objects \in [1..k -> HistChoices \cup {NotAPlotObject}] :
              LET r == HistPlotAddData(fig.datasets, plot_objects, 1)
              IN  /\ fig' = [fig EXCEPT !.datasets = r.datasets]
                  /\ call' = [fn |-> "add_data", raised |-> r.raised,
                              plot_objects |-> plot_objects]
    /\ UNCHANGED <<pc, args, self, exc, lim_args, lim, look, ax>>

\* p.remove_data(): the body is pass (basic.py 117-118, hist.py 63-64)
RemoveData ==
    /\ pc = "container"
    /\ call' = [fn |-> "remove_data", raised |-> "none"]
    /\ UNCHANGED <<pc, args, self, exc, lim_args, lim, look, ax, fig>>

\* p.plot() on a BasicPlot
PlotBasic ==
    /\ pc = "container"
    /\ fig.cls = "BasicPlot"
    /\ fig.plots < MaxPlots
    /\ LET r == BasicPlotPlot(fig, ax)
       IN  /\ fig' = [r.fig EXCEPT !.plots = @ + 1]
           /\ ax' = r.ax
           /\ call' = [fn |-> "plot", raised |-> r.raised]
    /\ UNCHANGED <<pc, args, self, exc, lim_args, lim, look>>

\* p.plot() on a HistPlot
PlotHist ==
    /\ pc = "container"
    /\ fig.cls = "HistPlot"
    /\ fig.plots < MaxPlots
    /\ LET r == HistPlotPlot(fig, ax)
       IN  /\ fig' = [r.fig EXCEPT !.plots = @ + 1]
           /\ ax' = r.ax
           /\ call' = [fn |-> "plot", raised |-> r.raised]
    /\ UNCHANGED <<pc, args, self, exc, lim_args, lim, look>>

NextPlot ==
    NewPlot \/ AddDataBasic \/ AddDataHist \/ RemoveData \/ PlotBasic \/ PlotHist

SpecPlot == Init /\ [][NextPlot]_vars

\* the axes after the first n datasets are drawn on a new axes
RECURSIVE AxesAfter(_, _)
AxesAfter(datasets, n) ==
    IF n = 0 THEN NewAxes ELSE DatasetDraw(datasets[n], AxesAfter(datasets, n - 1)).ax

\* what the draw of the i-th dataset returned
HandleOfDataset(datasets, i) == DatasetDraw(datasets[i], AxesAfter(datasets, i - 1)).handle

\* the positions of the datasets with a non-empty label, in insertion order
LabelledPositions(datasets) ==
    SelectSeq([i \in 1..Len(datasets) |-> i], LAMBDA i : Truthy(datasets[i].label))

\* the legend lists hold exactly the (handle, label) pairs of the labelled datasets
LegendOfLabelled(f) ==
    LET idx == LabelledPositions(f.datasets)
    IN  /\ Len(f.legend_handles) = Len(idx)
        /\ Len(f.legend_labels) = Len(idx)
        /\ \A k \in 1..Len(idx) :
             /\ f.legend_labels[k] = f.datasets[idx[k]].label
             /\ f.legend_handles[k] = HandleOfDataset(f.datasets, idx[k])

\* the first plot() of a container of class cls has just returned
FirstPlotReturned(cls) ==
    /\ pc = "container"
    /\ fig.cls = cls
    /\ call.fn = "plot"
    /\ call.raised = "none"
    /\ fig.plots = 1

\* C12: a HistPlot.plot() that returns has drawn the datasets in the order they
\* were added and, on a freshly constructed plot, leaves in legend_handles /
\* legend_labels exactly the (handle, label) pairs of the datasets whose label
\* is neither None nor '', in insertion order.
C12_HistLegendOfLabelled ==
    FirstPlotReturned("HistPlot") =>
        /\ ax.artists = AxesAfter(fig.datasets, Len(fig.datasets)).artists
        /\ LegendOfLabelled(fig)

C12_Witness ==
    /\ FirstPlotReturned("HistPlot")
    /\ Len(fig.datasets) = 2
    /\ fig.datasets[1] = PointsLines(ArrB, ArrA, Label(""))
    /\ fig.datasets[2].cls = "Hist"
    /\ fig.legend_labels = <<Label("h")>>
    /\ fig.legend_handles = <<Handle("StepPatch", 2)>>

\* C13: a BasicPlot.plot() that returns has drawn the datasets in the order
\* they were added and collected (handle, label) pairs for non-empty labels
\* only: a dataset whose label is None or '' has no entry in the legend lists.
C13_BasicLegendOfLabelled ==
    FirstPlotReturned("BasicPlot") =>
        /\ ax.artists = AxesAfter(fig.datasets, Len(fig.datasets)).artists
        /\ LegendOfLabelled(fig)

\* the x values and the y values of a dataset
DataX(d) == IF d.cls = "Hist" THEN d.hist.bins ELSE d.xdata
DataY(d) == IF d.cls = "Hist" THEN d.hist.data ELSE d.ydata

\* the limits the padding rule gives for the x (or y) values of all datasets
LimitOverAll(datasets, Values(_), log) ==
    compute_auto_limits([i \in 1..Len(datasets) |-> np_min(Values(datasets[i]))],
                        [i \in 1..Len(datasets) |-> np_max(Values(datasets[i]))], log).v

\* C14: the first plot() of a BasicPlot or HistPlot holding datasets, when it
\* returns, leaves a supplied x / y limit unchanged and applies it, and sets a
\* limit that was not supplied from the min/max over all datasets: 4% padding
\* on a linear axis, powers of ten when the axis's log flag is set.
C14_LimitsFromAllDatasets ==
    [][(/\ pc = "container" /\ fig.plots = 0 /\ fig.datasets # <<>>
        /\ call'.fn = "plot" /\ call'.raised = "none" /\ fig'.plots = 1)
       => /\ fig.xlim.given => (fig'.xlim = fig.xlim /\ ax'.xlim = fig.xlim)
          /\ fig.ylim.given => (fig'.ylim = fig.ylim /\ ax'.ylim = fig.ylim)
          /\ ~fig.xlim.given =>
                LET l == LimitOverAll(fig.datasets, DataX, fig.xlog_on)
                IN  fig'.xlim = SomeLim(l[1], l[2]) /\ ax'.xlim = fig'.xlim
          /\ ~fig.ylim.given =>
                /\ fig'.ylim.given
                /\ ax'.ylim = fig'.ylim
                /\ fig.cls = "BasicPlot" =>
                      LET l == LimitOverAll(fig.datasets, DataY, fig.ylog_on)
                      IN  fig'.ylim = SomeLim(l[1], l[2])]_vars

\* C17: the draw of every plot object a container holds returns a legend
\* handle, so after a plot() that returns every handle stored in legend_handles
\* is a non-None value.
C17_StoredHandlesNotNone ==
    (pc = "container" /\ call.fn = "plot" /\ call.raised = "none") =>
        \A k \in 1..Len(fig.legend_handles) : fig.legend_handles[k] # NoneHandle

\* C19: a style or color_theme name that is no key of its preset table resolves
\* to the table's default entry ('default' style, 'light' theme); a key resolves
\* to its entry and a mapping is used as given.
C19_UnknownNameResolvesToDefault ==
    pc = "container" =>
        /\ fig.style =
              IF fig.style_str = "custom" THEN GivenMapping
              ELSE IF fig.style_str \in STYLE_PRESETS
              THEN Entry("STYLE_PRESETS", fig.style_str)
              ELSE Entry("STYLE_PRESETS", "default")
        /\ fig.color_theme =
              IF fig.color_theme_str = "custom" THEN GivenMapping
              ELSE IF fig.color_theme_str \in COLOR_THEMES
              THEN Entry("COLOR_THEMES", fig.color_theme_str)
              ELSE Entry("COLOR_THEMES", "light")

\* C20: the default legend_settings is a preset decorate_legend recognises, so
\* plot() places a legend on a plot constructed without legend_settings; only
\* legend_settings=None leaves the axes without a legend call.
C20_DefaultLegendPlaced ==
    (pc = "container" /\ call.fn = "plot" /\ call.raised = "none"
        /\ fig.legend_labels # <<>>) =>
        /\ fig.legend_settings = DefaultLegendSettings.v =>
               RecognisedLegend(fig.legend_settings)
        /\ ax.legend.on <=> fig.legend_on

\* s is a prefix of t
IsPrefix(s, t) == Len(s) <= Len(t) /\ \A k \in 1..Len(s) : t[k] = s[k]

\* C21: HistPlot.add_data appends its arguments to the end of the dataset
\* sequence in argument order when each is an allowed type and raises TypeError
\* when one is not; no call on a container moves or drops a dataset added
\* earlier, and remove_data changes nothing.
C21_AddDataAppendsInOrder ==
    [][(pc = "container" /\ pc' = "container") =>
          /\ IsPrefix(fig.datasets, fig'.datasets)
          /\ call'.fn = "remove_data" => (fig' = fig /\ ax' = ax)
          /\ (fig.cls = "HistPlot" /\ call'.fn = "add_data") =>
                LET objs == call'.plot_objects
                    valid == \A i \in 1..Len(objs) : objs[i].cls \in ALLOWED_TYPES
                IN  /\ valid => (/\ call'.raised = "none"
                                 /\ fig'.datasets = fig.datasets \o objs)
                    /\ ~valid => call'.raised = "TypeError"]_vars

C21_Witness ==
    /\ pc = "container"
    /\ fig.cls = "HistPlot"
    /\ call.fn = "add_data"
    /\ call.raised = "none"
    /\ Len(call.plot_objects) = 1
    /\ Len(fig.datasets) = 2
    /\ fig.datasets[1].cls = "Hist"
    /\ fig.datasets[2] = call.plot_objects[1]
    /\ fig.datasets[2].cls = "ErrorBar"
    /\ fig.plots = 1

\* C23: a HistPlot.add_data call that raises TypeError leaves the dataset
\* sequence exactly as it was before the call.
C23_FailedAddDataAddsNothing ==
    [][(pc = "container" /\ fig.cls = "HistPlot" /\ call'.fn = "add_data"
        /\ call'.raised = "TypeError")
       => fig'.datasets = fig.datasets]_vars

\* C22: after a successful Hist construction, counted or raw, data has one
\* entry fewer than bins, err is None or has as many entries as data, and in
\* raw mode with an integer bin count n bins has n + 1 edges.
C22_ShapesAfterConstruction ==
    Constructed =>
        /\ Len(self.data) = Len(self.bins) - 1
        /\ self.err.present => Len(self.err.v) = Len(self.data)
        /\ (~args.counted /\ args.bins.kind = "int") => Len(self.bins) = args.bins.n + 1

C22_Witness ==
    /\ Constructed
    /\ ~args.counted
    /\ args.bins.kind = "int"
    /\ args.bins.n = 2
    /\ args.weights.given
    /\ self.err.present
    /\ Len(self.err.v) = 2
    /\ Len(self.bins) = 3

\* the axes after the first n datasets are drawn on the axes a
RECURSIVE AxesFrom(_, _, _)
AxesFrom(a, datasets, n) ==
    IF n = 0 THEN a ELSE DatasetDraw(datasets[n], AxesFrom(a, datasets, n - 1)).ax

\* what the draw of the j-th dataset returns in a plot() that starts on the axes a
HandleFrom(a, datasets, j) == DatasetDraw(datasets[j], AxesFrom(a, datasets, j - 1)).handle

\* C24: after any sequence of add_data and plot() calls on a BasicPlot or
\* HistPlot, legend_handles and legend_labels have the same length, and entry k
\* of one belongs to the same dataset as entry k of the other: no call changes
\* the entries already stored, and every entry a plot() call adds pairs the
\* handle returned by the draw of a dataset with that dataset's label.
C24_LegendListsPaired ==
    [][pc' = "container" =>
          /\ Len(fig'.legend_handles) = Len(fig'.legend_labels)
          /\ pc = "container" =>
                /\ IsPrefix(fig.legend_handles, fig'.legend_handles)
                /\ IsPrefix(fig.legend_labels, fig'.legend_labels)
                /\ call'.fn # "plot" =>
                      Len(fig'.legend_handles) = Len(fig.legend_handles)
                /\ \A k \in (Len(fig.legend_handles) + 1)..Len(fig'.legend_handles) :
                      \E j \in 1..Len(fig.datasets) :
                         /\ fig'.legend_handles[k] = HandleFrom(ax, fig.datasets, j)
                         /\ fig'.legend_labels[k] = fig.datasets[j].label]_vars

C24_Witness ==
    /\ pc = "container"
    /\ call.fn = "plot"
    /\ fig.plots = 2
    /\ Len(fig.datasets) = 2
    /\ Len(fig.legend_handles) = 3
    /\ fig.legend_labels[1] = fig.legend_labels[2]
    /\ fig.legend_labels[3] # fig.legend_labels[1]

\* C25: after any sequence of add_data and plot() calls on one container the
\* legend lists hold at most one (handle, label) entry per added dataset.
C25_OneLegendEntryPerDataset ==
    pc = "container" =>
        /\ Len(fig.legend_handles) <= Len(fig.datasets)
        /\ Len(fig.legend_labels) <= Len(fig.datasets)

\* a new container with the constructor arguments and the datasets of f
FreshWithDatasets(f) ==
    [f EXCEPT !.xlim = f.arg_xlim, !.ylim = f.arg_ylim,
              !.legend_handles = <<>>, !.legend_labels = <<>>]

\* the axes a plot() leaves when it computes from the datasets now present
AxesComputedNow(f) ==
    IF f.cls = "BasicPlot" THEN BasicPlotPlot(FreshWithDatasets(f), NewAxes).ax
    ELSE HistPlotPlot(FreshWithDatasets(f), NewAxes).ax

\* C26: when the caller supplied no x (or y) limit, every plot() call that
\* returns applies the limit computed from the datasets present at that call,
\* so after plot(), add_data of a dataset with a wider range and plot() again
\* the applied limit encloses the new dataset's range.
C26_LimitsFollowDatasets ==
    (pc = "container" /\ call.fn = "plot" /\ call.raised = "none") =>
        /\ ~fig.arg_xlim.given => ax.xlim = AxesComputedNow(fig).xlim
        /\ ~fig.arg_ylim.given => ax.ylim = AxesComputedNow(fig).ylim

\* a Hist drawn on its own and a Hist drawn by a container's plot()
NextDrawInPlot == NextDraw \/ NextPlot

SpecDrawInPlot == Init /\ [][NextDrawInPlot]_vars

InvalidHist(d) == d.cls = "Hist" /\ d.look.hist_type \notin HistTypes

\* the position of the first Hist with an unknown hist_type, 0 when there is none
FirstInvalid(datasets) ==
    IF \E j \in 1..Len(datasets) : InvalidHist(datasets[j])
    THEN CHOOSE j \in 1..Len(datasets) :
            /\ InvalidHist(datasets[j])
            /\ \A i \in 1..(j - 1) : ~InvalidHist(datasets[i])
    ELSE 0

\* the draws of the first n datasets, started on the axes a, all return
DrawsReturn(a, datasets, n) ==
    \A i \in 1..n : DatasetDraw(datasets[i], AxesFrom(a, datasets, i - 1)).raised = "none"

\* the (handle, label) pairs HistPlot.plot() stores for the first n datasets
PairsOfFirst(a, datasets, n) ==
    LET idx == SelectSeq([i \in 1..n |-> i], LAMBDA i : Truthy(datasets[i].label))
    IN  [handles |-> [k \in 1..Len(idx) |-> HandleFrom(a, datasets, idx[k])],
         labels |-> [k \in 1..Len(idx) |-> datasets[idx[k]].label]]

\* C27: Hist construction succeeds or fails whatever hist_type is; Hist.draw
\* with a hist_type other than 'step', 'stepfilled', 'bar', 'point' raises
\* ValueError with nothing drawn, neither body nor uncertainty; inside a
\* container's plot() this aborts the loop with the datasets before it drawn
\* and their legend entries appended, and nothing of the later steps done.
C27_UnknownHistTypeAborts ==
    [][/\ (pc = "start" /\ pc' \in {"constructed", "raised"}) =>
            (pc' = "constructed" <=>
                HistInit(args'.data, args'.bins, args'.bin_range, args'.counted,
                         args'.weights, args'.include_error, args'.normalize).raised = "none")
       /\ (pc \in {"constructed", "drawn"} /\ call'.fn = "draw"
           /\ look.hist_type \notin HistTypes) =>
            (call'.raised = "ValueError" /\ ax' = ax)
       /\ (pc = "container" /\ fig.cls = "HistPlot" /\ call'.fn = "plot"
           /\ FirstInvalid(fig.datasets) # 0
           /\ DrawsReturn(ax, fig.datasets, FirstInvalid(fig.datasets) - 1)) =>
            LET n == FirstInvalid(fig.datasets) - 1
                pairs == PairsOfFirst(ax, fig.datasets, n)
            IN  /\ call'.raised = "ValueError"
                /\ ax' = AxesFrom(ax, fig.datasets, n)
                /\ fig'.legend_handles = fig.legend_handles \o pairs.handles
                /\ fig'.legend_labels = fig.legend_labels \o pairs.labels
                /\ fig'.xlim = fig.xlim /\ fig'.ylim = fig.ylim]_vars

C27_Witness ==
    /\ pc = "container"
    /\ fig.cls = "HistPlot"
    /\ call.fn = "plot"
    /\ call.raised = "ValueError"
    /\ fig.plots = 1
    /\ Len(fig.datasets) = 2
    /\ fig.datasets[1] = HistObject(ContainerHist, HistLook("step", Label("h")))
    /\ InvalidHist(fig.datasets[2])
    /\ fig.legend_labels = <<Label("h")>>
    /\ Len(ax.artists) = 2
    /\ ~fig.xlim.given

====
